---- MODULE Spec2Model ----
(***************************************************************************)
(* The game-state simulation of src/main.py (class Game): the per-frame    *)
(* update, the input handler, restart, and the difficulty / spawn engine.  *)
(*                                                                         *)
(* Numbers.  The code works on floats; the model works on exact integers:  *)
(*   - lengths and per-tick velocities in 1/10000 world unit               *)
(*     (player_x = -5 is -50000, gravity 0.015 is 150);                    *)
(*   - times in 1/18000 second, the unit in which one millisecond (18)     *)
(*     and every bound of a spawn range are whole numbers.                 *)
(* Float rounding is not modelled.                                         *)
(*                                                                         *)
(* Randomness (random.uniform, random.choice, random.random) is a choice   *)
(* from a small set of the values the call can return.  The sine of the    *)
(* animation phase is a choice from the values of its range: the phase     *)
(* starts at a random offset, so any of them can occur on a given tick.    *)
(* Rendering (draw, textures, fonts, music, fullscreen, ground tiles and   *)
(* the width/height of an entity) is left out; nothing in update reads it. *)
(***************************************************************************)
EXTENDS Integers, Sequences, FiniteSets, TLC

VARIABLES
    game,          \* the Game object's simulation fields (self.*)
    wall_time,     \* time.time(): the wall clock, which no pause stops
    ticks,         \* number of frames of run() taken so far (bounds the run)
    inputs,        \* number of key events handled so far (bounds the run)
    next_id,       \* identity of the next entity dict created (ghost)
    paused_time,   \* wall time spent paused since the last obstacle spawn (ghost)
    boosts,        \* boost impulses applied since the last takeoff (ghost)
    despawned,     \* obstacles removed from the list since the last reset (ghost)
    ev             \* what the last operation did (ghost, read by witnesses)

vars == <<game, wall_time, ticks, inputs, next_id, paused_time, boosts, despawned, ev>>

----------------------------------------------------------------------------
\* Bounds of the model.

\* frames explored from each starting state
MaxTicks == 3
\* key events explored from each starting state
MaxInputs == 2
\* longest obstacle list explored
MaxObstacles == 3
\* longest lifeline list explored
MaxLifelines == 2
\* highest velocity explored (a jump plus two boost impulses)
MaxVelocity == 6930
\* frames of a run at a steady 144 Hz: more than the 20 ticks an obstacle
\* takes to cross the collision window at the lowest speed
MaxFrames == 25

----------------------------------------------------------------------------
\* Constants of reset_game_state and of the literals in update.

player_x0 == -50000
ground_y == -60000
gravity == 150
jump_force == 4500
max_jump_height == 2000
\* jump_force * air_control * 0.3 = 0.45 * 0.9 * 0.3
boost_impulse == 1215
invulnerable_duration == 27000
base_speed == 1200
base_spawn_min == 18000
base_spawn_max == 36000
base_lifeline_spawn_min == 108000
base_lifeline_spawn_max == 180000
max_difficulty_level == 15
start_lives == 5
spawn_x == 250000
despawn_x == -250000
obstacle_tolerance == 12000
lifeline_tolerance == 13000
debug_score == 999

Abs(a) == IF a < 0 THEN -a ELSE a
Min(a, b) == IF a < b THEN a ELSE b
Max(a, b) == IF a > b THEN a ELSE b

\* random.uniform(lo, hi): the two ends of the range
Uniform(lo, hi) == {lo, hi}

\* math.sin(animation_offset) * amplitude for each of n entities: float_amount
\* by index.  The sine is taken at its two extremes, and the entities of one
\* list in phase.
Floats(n, amplitude) == {[i \in 1..n |-> amplitude * sine] : sine \in {-1, 1}}

----------------------------------------------------------------------------
\* Difficulty curve.

\* get_difficulty_multiplier, as the numerator of a fraction over
\* max_difficulty_level: min(level / 15, 1.0) = DifficultyMultiplier / 15
DifficultyMultiplier(level) == Min(level, max_difficulty_level)

\* mutant: the speed does not depend on the level
GetCurrentSpeed_Flat(level) == base_speed * 5

\* get_current_speed: base_speed * (1 + multiplier * 4)
GetCurrentSpeed(level) ==
    (base_speed * (max_difficulty_level + DifficultyMultiplier(level) * 4))
        \div max_difficulty_level

\* base * (1 - multiplier * tenths / 10)
Scaled(base, level, tenths) ==
    (base * (max_difficulty_level * 10 - DifficultyMultiplier(level) * tenths))
        \div (max_difficulty_level * 10)

\* mutant: the obstacle spawn range without its floors
GetSpawnTiming_NoFloor(level) ==
    << Scaled(base_spawn_min, level, 7), Scaled(base_spawn_max, level, 7) >>

\* get_spawn_timing: <<min, max>> with floors 0.4 s and 0.8 s
GetSpawnTiming(level) ==
    << Max(7200, Scaled(base_spawn_min, level, 7)),
       Max(14400, Scaled(base_spawn_max, level, 7)) >>

\* get_lifeline_spawn_timing: <<min, max>> with floors 5.0 s and 8.0 s
GetLifelineSpawnTiming(level) ==
    << Max(90000, Scaled(base_lifeline_spawn_min, level, 3)),
       Max(144000, Scaled(base_lifeline_spawn_max, level, 3)) >>

\* get_obstacle_pattern: the list random.choice draws from
ObstaclePatterns(level) ==
    IF level >= 9 THEN
        {"single_ground", "single_air", "gap_vertical", "gap_horizontal", "triple"}
    ELSE IF level >= 7 THEN
        {"single_ground", "single_air", "gap_vertical", "double_stack", "triple"}
    ELSE IF level >= 5 THEN
        {"single_ground", "single_air", "gap_vertical", "double_stack"}
    ELSE IF level >= 3 THEN {"single_ground", "single_air", "double_stack"}
    ELSE {"single_ground", "single_air"}

\* mutant: the level is not capped at max_difficulty_level
NewLevel_NoCap(score) == (score \div 10) + 1

\* update_difficulty: the level the score asks for
NewLevel(score) == Min(max_difficulty_level, (score \div 10) + 1)

\* mutant: the level changes but the cached speed is left as it was
UpdateDifficulty_StaleSpeed(g) ==
    [g EXCEPT !.difficulty_level = NewLevel(g.score)]

\* update_difficulty: level and cached speed change only when the level differs
UpdateDifficulty(g) ==
    IF NewLevel(g.score) # g.difficulty_level
    THEN [g EXCEPT !.difficulty_level = NewLevel(g.score),
                   !.speed = GetCurrentSpeed(NewLevel(g.score))]
    ELSE g

----------------------------------------------------------------------------
\* Entities.  An obstacle dict is [id, x, y], its obstacle_data record
\* [id, base_y]; likewise for lifelines.  id is the identity of the Python
\* object: both records of an entity are created together and carry the same id.

RemoveAt(s, i) == SubSeq(s, 1, i - 1) \o SubSeq(s, i + 1, Len(s))

\* create_pill_obstacle: the base altitude of a named height
HeightY(height) ==
    CASE height = "ground" -> -55000
      [] height = "low_air" -> -45000
      [] height = "mid_air" -> -35000
      [] height = "high_air" -> -25000
      [] height = "sky" -> -15000

\* create_pill_obstacle with a number for height (base_y = height), x offset
\* dx from the spawn column
PillAt(base_y, dx) == [x |-> spawn_x + dx, base_y |-> base_y]

\* create_pill_obstacle with a named height
Pill(height, dx) == PillAt(HeightY(height), dx)

\* the orders random.shuffle can leave ['ground', 'mid_air', 'high_air'] in
TripleOrders ==
    {<<"ground", "mid_air", "high_air">>, <<"ground", "high_air", "mid_air">>,
     <<"mid_air", "ground", "high_air">>, <<"mid_air", "high_air", "ground">>,
     <<"high_air", "ground", "mid_air">>, <<"high_air", "mid_air", "ground">>}

\* gap_vertical: the bottom half if above -6.5, then the top half if below -0.5
GapVertical(gap_size, gap_center) ==
    LET bottom_height == gap_center - gap_size \div 2
        top_height == gap_center + gap_size \div 2
    IN  (IF bottom_height > -65000 THEN <<PillAt(bottom_height, 0)>> ELSE <<>>)
        \o (IF top_height < -5000 THEN <<PillAt(top_height, 0)>> ELSE <<>>)

\* create_obstacle_pattern: every list of obstacles the pattern can produce
CreateObstaclePattern(pattern_type) ==
    CASE pattern_type = "single_ground" -> {<<Pill("ground", 0)>>}
      [] pattern_type = "single_air" ->
            {<<Pill(h, 0)>> : h \in {"low_air", "mid_air", "high_air"}}
      [] pattern_type = "double_stack" ->
            {<<PillAt(a, 0), PillAt(b, 0)>> :
                a \in Uniform(-55000, -45000), b \in Uniform(-35000, -25000)}
      [] pattern_type = "gap_vertical" ->
            {GapVertical(s, c) : s \in Uniform(25000, 32000), c \in Uniform(-40000, -25000)}
      [] pattern_type = "gap_horizontal" ->
            {<<Pill(a, 0), Pill(b, dx)>> :
                a \in {"ground", "low_air", "mid_air"},
                b \in {"low_air", "mid_air", "high_air"},
                dx \in Uniform(20000, 30000)}
      [] pattern_type = "triple" ->
            {<<Pill(o[1], 0), Pill(o[2], 18000), Pill(o[3], 36000)>> : o \in TripleOrders}
      [] OTHER -> {<<>>}

\* the obstacle dicts of a created pattern, ids from first on
NewObstacles(created, first) ==
    [i \in 1..Len(created) |->
        [id |-> first + i - 1, x |-> created[i].x, y |-> created[i].base_y]]

\* the animation records of a created pattern
NewObstacleData(created, first) ==
    [i \in 1..Len(created) |-> [id |-> first + i - 1, base_y |-> created[i].base_y]]

\* create_lifeline: the altitudes random.uniform(-5.0, -3.0) is drawn from
LifelineDraws == {-50000, -40000, -30000}

\* mutant: every draw counts as safe
SafePosition_Always(g, potential_y) == TRUE

\* create_lifeline: no obstacle with 23 < x < 27 has its base altitude within 1.5
SafePosition(g, potential_y) ==
    \A i \in 1..Len(g.obstacles) :
        (g.obstacles[i].x > 230000 /\ g.obstacles[i].x < 270000) =>
            LET obs_y == IF i <= Len(g.obstacle_data)
                         THEN g.obstacle_data[i].base_y ELSE g.obstacles[i].y
            IN  ~(Abs(potential_y - obs_y) < 15000)

\* create_lifeline: the altitudes the for/else loop can end with, from
\* attempt number `attempt` on: the first safe draw, or -2.8 after 10 unsafe ones
RECURSIVE LifelineAltitudes(_, _)
LifelineAltitudes(g, attempt) ==
    IF attempt >= 10 THEN {-28000}
    ELSE {y \in LifelineDraws : SafePosition(g, y)}
         \cup (IF \E y \in LifelineDraws : ~SafePosition(g, y)
               THEN LifelineAltitudes(g, attempt + 1) ELSE {})

\* create_lifeline
CreateLifeline(g) == LifelineAltitudes(g, 0)

\* create_lifeline: max_attempts
max_attempts == 10

\* create_lifeline on given draws of random.uniform, from attempt number
\* `attempt` on: the first safe draw, or -2.8 when the loop runs out
RECURSIVE CreateLifelineFrom(_, _, _)
CreateLifelineFrom(g, draws, attempt) ==
    IF attempt > max_attempts THEN -28000
    ELSE IF SafePosition(g, draws[attempt]) THEN draws[attempt]
    ELSE CreateLifelineFrom(g, draws, attempt + 1)

\* the draws of the attempts explored: one altitude for the first attempts,
\* another from attempt k on
DrawSequences ==
    {[i \in 1..max_attempts |-> IF i < k THEN a ELSE b] :
        a \in LifelineDraws, b \in LifelineDraws, k \in 1..(max_attempts + 1)}

----------------------------------------------------------------------------
\* reset_game_state: every per-run field; the two spawn times are set by the
\* callers (__init__, restart_game) from time.time().
ResetGameState(now) ==
    [ player_x |-> player_x0, player_y |-> ground_y, velocity |-> 0,
      is_jumping |-> FALSE, player_rotation |-> 0,
      obstacles |-> <<>>, obstacle_data |-> <<>>,
      lifelines |-> <<>>, lifeline_data |-> <<>>,
      score |-> 0, lives |-> start_lives, difficulty_level |-> 1,
      game_running |-> TRUE, game_over_screen |-> FALSE, game_paused |-> FALSE,
      invulnerable |-> FALSE, invulnerable_timer |-> 0,
      show_999_forever |-> FALSE,
      speed |-> base_speed,
      last_spawn_time |-> now, last_lifeline_spawn_time |-> now ]

\* mutant: restart keeps the 999 flag of the run before
RestartGame_KeepsFlag(now) ==
    [ResetGameState(now) EXCEPT !.game_over_screen = FALSE,
                                !.show_999_forever = game.show_999_forever]

\* restart_game: reset_game_state, both spawn times, game_over_screen = False
RestartGame(now) == [ResetGameState(now) EXCEPT !.game_over_screen = FALSE]

\* mutant: the invulnerability window lasts 10 frames of 1/144 s
LoseLife_ShortWindow(g) ==
    LET g1 == [g EXCEPT !.lives = g.lives - 1]
    IN  IF g1.lives <= 0
        THEN [g1 EXCEPT !.game_running = FALSE, !.game_over_screen = TRUE]
        ELSE [g1 EXCEPT !.invulnerable = TRUE, !.invulnerable_timer = 1250]

\* lose_life
LoseLife(g) ==
    LET g1 == [g EXCEPT !.lives = g.lives - 1]
    IN  IF g1.lives <= 0
        THEN [g1 EXCEPT !.game_running = FALSE, !.game_over_screen = TRUE]
        ELSE [g1 EXCEPT !.invulnerable = TRUE,
                        !.invulnerable_timer = invulnerable_duration]

\* mutant: a lifeline is not collected while the player is invulnerable
CollectLifeline_NeedsVulnerable(g, lifeline_index) ==
    IF g.invulnerable THEN g
    ELSE [g EXCEPT !.lives = g.lives + 1,
                   !.lifelines = RemoveAt(g.lifelines, lifeline_index),
                   !.lifeline_data = RemoveAt(g.lifeline_data, lifeline_index)]

\* mutant: the lifeline is popped, its animation record is not
CollectLifeline_KeepsRecord(g, lifeline_index) ==
    [g EXCEPT !.lives = g.lives + 1,
              !.lifelines = RemoveAt(g.lifelines, lifeline_index)]

\* collect_lifeline
CollectLifeline(g, lifeline_index) ==
    LET g1 == [g EXCEPT !.lives = g.lives + 1]
    IN  IF lifeline_index <= Len(g1.lifelines)
        THEN [g1 EXCEPT !.lifelines = RemoveAt(g1.lifelines, lifeline_index),
                        !.lifeline_data =
                            IF lifeline_index <= Len(g1.lifeline_data)
                            THEN RemoveAt(g1.lifeline_data, lifeline_index)
                            ELSE g1.lifeline_data]
        ELSE g1

\* the collision test of update: within tol of the player on both axes
Overlaps(g, e, tol) ==
    Abs(g.player_x - e.x) < tol /\ Abs(g.player_y - e.y) < tol

----------------------------------------------------------------------------
\* update, step by step.

\* mutant: the timer runs down but the flag is never cleared
InvulnerabilityStep_NeverClears(g, dt) ==
    IF g.invulnerable
    THEN [g EXCEPT !.invulnerable_timer = g.invulnerable_timer - dt]
    ELSE g

\* update: the invulnerability timer
InvulnerabilityStep(g, dt) ==
    IF g.invulnerable
    THEN LET t == g.invulnerable_timer - dt
         IN  [g EXCEPT !.invulnerable_timer = t,
                       !.invulnerable = IF t <= 0 THEN FALSE ELSE TRUE]
    ELSE g

\* mutant: gravity without the floor clamp
PhysicsStep_NoClamp(g) ==
    [g EXCEPT !.velocity = g.velocity - gravity,
              !.player_y = g.player_y + (g.velocity - gravity),
              !.player_rotation = IF g.is_jumping THEN 10 ELSE 0]

\* update: gravity, the floor clamp and the rotation
PhysicsStep(g) ==
    LET v == g.velocity - gravity
        y == g.player_y + v
        g1 == IF y <= ground_y
              THEN [g EXCEPT !.player_y = ground_y, !.velocity = 0, !.is_jumping = FALSE]
              ELSE [g EXCEPT !.player_y = y, !.velocity = v]
    IN  [g1 EXCEPT !.player_rotation = IF g1.is_jumping THEN 10 ELSE 0]

\* mutant: the hit test ignores invulnerability
IsHit_IgnoresInvulnerable(g, obs) == Overlaps(g, obs, obstacle_tolerance)

\* update: the hit test of one obstacle, which invulnerability switches off
IsHit(g, obs) == Overlaps(g, obs, obstacle_tolerance) /\ ~g.invulnerable

\* mutant: a despawned obstacle scores nothing
ScoreObstacle_NoPoint(g) == g

\* mutant: the point is scored without update_difficulty
ScoreObstacle_NoDifficulty(g) ==
    [g EXCEPT !.score = g.score + 1,
              !.show_999_forever = IF g.score + 1 >= 999 THEN TRUE ELSE g.show_999_forever]

\* update: an obstacle past the despawn threshold scores a point
ScoreObstacle(g) ==
    LET g1 == UpdateDifficulty([g EXCEPT !.score = g.score + 1])
    IN  [g1 EXCEPT !.show_999_forever =
                      IF g1.score >= 999 THEN TRUE ELSE g1.show_999_forever]

\* mutant: the obstacle loop goes on after a hit (no break)
RECURSIVE ObstacleLoop_NoBreak(_, _, _)
ObstacleLoop_NoBreak(i, st, fl) ==
    IF i > Len(st.g.obstacles) THEN st
    ELSE
      LET g == st.g
          obs == g.obstacles[i]
          moved == [obs EXCEPT !.x = obs.x - g.speed,
                               !.y = g.obstacle_data[i].base_y + fl[i]]
          g1 == [g EXCEPT !.obstacles[i] = moved]
          seen == st.seen + (IF Overlaps(g1, moved, obstacle_tolerance) THEN 1 ELSE 0)
      IN  IF IsHit(g1, moved)
          THEN ObstacleLoop_NoBreak(i + 1,
                   [st EXCEPT !.g = LoseLife(g1), !.hit = i, !.seen = seen], fl)
          ELSE IF moved.x < despawn_x
          THEN ObstacleLoop_NoBreak(i + 1,
                   [st EXCEPT !.g = ScoreObstacle(g1),
                              !.marks = Append(st.marks, i), !.seen = seen], fl)
          ELSE ObstacleLoop_NoBreak(i + 1, [st EXCEPT !.g = g1, !.seen = seen], fl)

\* update: the obstacle loop from index i on.  st = [g, marks, hit, seen, inv]:
\* the game, obstacles_to_remove, the index of the obstacle that hit (0: none,
\* the loop ran to its end), the processed obstacles found overlapping the
\* player, and self.invulnerable as the loop found it.
RECURSIVE ObstacleLoop(_, _, _)
ObstacleLoop(i, st, fl) ==
    IF i > Len(st.g.obstacles) THEN st
    ELSE
      LET g == st.g
          obs == g.obstacles[i]
          moved == [obs EXCEPT
                      !.x = obs.x - g.speed,
                      !.y = IF i <= Len(g.obstacle_data)
                            THEN g.obstacle_data[i].base_y + fl[i] ELSE obs.y]
          g1 == [g EXCEPT !.obstacles[i] = moved]
          seen == st.seen + (IF Overlaps(g1, moved, obstacle_tolerance) THEN 1 ELSE 0)
      IN  IF IsHit(g1, moved)
          THEN [st EXCEPT !.g = LoseLife(g1), !.hit = i, !.seen = seen]
          ELSE IF moved.x < despawn_x
          THEN ObstacleLoop(i + 1,
                   [st EXCEPT !.g = ScoreObstacle(g1),
                              !.marks = Append(st.marks, i), !.seen = seen], fl)
          ELSE ObstacleLoop(i + 1, [st EXCEPT !.g = g1, !.seen = seen], fl)

\* mutant: every mark is taken one index too high
RemoveMarked_Shifted(list, data, marks, k) ==
    LET gone == {marks[j] + 1 : j \in 1..k}
        RECURSIVE Filter(_, _)
        Filter(seq, j) ==
            IF j > Len(seq) THEN <<>>
            ELSE (IF j \in gone THEN <<>> ELSE <<seq[j]>>) \o Filter(seq, j + 1)
    IN  <<Filter(list, 1), Filter(data, 1)>>

\* update: "for i in reversed(to_remove)": pop entity i and its record,
\* from the k-th mark down to the first
RECURSIVE RemoveMarked(_, _, _, _)
RemoveMarked(list, data, marks, k) ==
    IF k = 0 THEN <<list, data>>
    ELSE LET i == marks[k]
         IN  IF i <= Len(list)
             THEN RemoveMarked(RemoveAt(list, i),
                               IF i <= Len(data) THEN RemoveAt(data, i) ELSE data,
                               marks, k - 1)
             ELSE RemoveMarked(list, data, marks, k - 1)

\* update: the obstacle loop, then the removal of the marked obstacles
ObstaclePass(g, fl) ==
    LET st == ObstacleLoop(1, [g |-> g, marks |-> <<>>, hit |-> 0, seen |-> 0,
                               inv |-> g.invulnerable], fl)
        kept == RemoveMarked(st.g.obstacles, st.g.obstacle_data, st.marks, Len(st.marks))
    IN  [st EXCEPT !.g = [st.g EXCEPT !.obstacles = kept[1], !.obstacle_data = kept[2]]]

\* update: the lifeline loop from index i on.  st = [g, marks, collected]:
\* the game, lifelines_to_remove, the index of the collected lifeline (0: none).
RECURSIVE LifelineLoop(_, _, _)
LifelineLoop(i, st, fl) ==
    IF i > Len(st.g.lifelines) THEN st
    ELSE
      LET g == st.g
          ll == g.lifelines[i]
          moved == [ll EXCEPT
                      !.x = ll.x - g.speed,
                      !.y = IF i <= Len(g.lifeline_data)
                            THEN g.lifeline_data[i].base_y + fl[i] ELSE ll.y]
          g1 == [g EXCEPT !.lifelines[i] = moved]
      IN  IF Overlaps(g1, moved, lifeline_tolerance)
          THEN [st EXCEPT !.g = CollectLifeline(g1, i), !.collected = i]
          ELSE IF moved.x < despawn_x
          THEN LifelineLoop(i + 1, [st EXCEPT !.g = g1, !.marks = Append(st.marks, i)], fl)
          ELSE LifelineLoop(i + 1, [st EXCEPT !.g = g1], fl)

\* update: the lifeline loop, then the removal of the marked lifelines
LifelinePass(g, fl) ==
    LET st == LifelineLoop(1, [g |-> g, marks |-> <<>>, collected |-> 0], fl)
        kept == RemoveMarked(st.g.lifelines, st.g.lifeline_data, st.marks, Len(st.marks))
    IN  [st EXCEPT !.g = [st.g EXCEPT !.lifelines = kept[1], !.lifeline_data = kept[2]]]

\* mutant: a spawn is due on every tick
SpawnDue_Always(now, last, threshold) == TRUE

\* update: "now - self.last_spawn_time > random.uniform(spawn_min, spawn_max)"
SpawnDue(now, last, threshold) == now - last > threshold

\* update: extend both obstacle lists by a created pattern, restart the timer
SpawnObstacles(g, now, created, first) ==
    [g EXCEPT !.obstacles = g.obstacles \o NewObstacles(created, first),
              !.obstacle_data = g.obstacle_data \o NewObstacleData(created, first),
              !.last_spawn_time = now]

\* mutant: a lifeline spawn restarts the obstacle timer as well
SpawnLifeline_ResetsObstacleTimer(g, now, base_y, id) ==
    [g EXCEPT !.lifelines = Append(g.lifelines, [id |-> id, x |-> spawn_x, y |-> base_y]),
              !.lifeline_data = Append(g.lifeline_data, [id |-> id, base_y |-> base_y]),
              !.last_lifeline_spawn_time = now,
              !.last_spawn_time = now]

\* update: append a lifeline at altitude base_y, restart the lifeline timer
SpawnLifeline(g, now, base_y, id) ==
    [g EXCEPT !.lifelines = Append(g.lifelines, [id |-> id, x |-> spawn_x, y |-> base_y]),
              !.lifeline_data = Append(g.lifeline_data, [id |-> id, base_y |-> base_y]),
              !.last_lifeline_spawn_time = now]

\* mutant: update forgets the game_running test
UpdateRuns_NoGameOverTest(g) == ~g.game_paused

\* mutant: update forgets the game_paused test
UpdateRuns_NoPauseTest(g) == g.game_running

\* update: "if not self.game_running or self.game_paused: return"
UpdateRuns(g) == g.game_running /\ ~g.game_paused

----------------------------------------------------------------------------
\* handle_input, one KEYDOWN event at a time.

\* toggle_pause
TogglePause(g) == [g EXCEPT !.game_paused = ~g.game_paused]

\* mutant: K_p toggles the pause in every state
HandleP_NoRunningTest(g) == TogglePause(g)

\* handle_input, K_p: "and self.game_running"
HandleP(g) == IF g.game_running THEN TogglePause(g) ELSE g

\* handle_input, K_SPACE: jump when grounded, else the boost impulse
HandleSpace(g) ==
    IF g.game_running /\ ~g.game_paused
    THEN IF ~g.is_jumping
         THEN [g EXCEPT !.velocity = jump_force, !.is_jumping = TRUE]
         ELSE IF g.player_y < max_jump_height /\ g.velocity > 0
         THEN [g EXCEPT !.velocity = g.velocity + boost_impulse]
         ELSE g
    ELSE g

\* handle_input, K_r: "and not self.game_running"
HandleR(g, now) == IF ~g.game_running THEN RestartGame(now) ELSE g

\* mutant: the debug score does not set the 999 flag
HandleF1_NoFlag(g) ==
    IF g.game_running /\ ~g.game_paused
    THEN UpdateDifficulty([g EXCEPT !.score = debug_score])
    ELSE g

\* handle_input, K_F1: the debug score
HandleF1(g) ==
    IF g.game_running /\ ~g.game_paused
    THEN [UpdateDifficulty([g EXCEPT !.score = debug_score])
            EXCEPT !.show_999_forever = TRUE]
    ELSE g

----------------------------------------------------------------------------
\* The record of the last operation (ghost).  op: the operation; effect: it
\* changed the game; hit: index of the obstacle that cost a life (0: none);
\* seen: obstacles the loop found overlapping the player; reaped: obstacles
\* removed past the threshold; collected: index of the lifeline collected;
\* spawned: obstacles added; lifeline_spawned; inv: invulnerable during the
\* obstacle loop; run_elapsed: at an obstacle spawn, the unpaused time since
\* the last spawn; lives_before, score_before: the values the operation found;
\* landed: the floor clamp of the tick took an airborne player.
NoEv ==
    [op |-> "init", effect |-> FALSE, hit |-> 0, seen |-> 0, reaped |-> 0,
     collected |-> 0, spawned |-> 0, lifeline_spawned |-> FALSE, inv |-> FALSE,
     run_elapsed |-> 0, lives_before |-> 0, score_before |-> 0, landed |-> FALSE]

InputEv(name, g, g2) ==
    [NoEv EXCEPT !.op = name, !.effect = (g2 # g),
                 !.lives_before = g.lives, !.score_before = g.score]

\* the frame durations explored: clock.tick(FPS) returns whole milliseconds,
\* 6 or 7 of them for a frame at 144 Hz
DtChoices == {108, 126}

\* update(dt) as run() calls it: the frame lasted dt, so time.time() has
\* advanced by dt since the last frame.
Frame(dt) ==
    /\ inputs' = inputs
    /\ wall_time' = wall_time + dt
    /\ IF ~UpdateRuns(game)
       THEN /\ game' = game
            /\ next_id' = next_id
            /\ paused_time' = IF game.game_paused THEN paused_time + dt ELSE paused_time
            /\ boosts' = boosts
            /\ despawned' = despawned
            /\ ev' = InputEv("update", game, game)
       ELSE \E fl \in Floats(Len(game.obstacles), 3000),
               lfl \in Floats(Len(game.lifelines), 4000) :
            \E op \in {ObstaclePass(PhysicsStep(InvulnerabilityStep(game, dt)), fl)} :
            \E lp \in {LifelinePass(op.g, lfl)} :
            \E threshold \in Uniform(GetSpawnTiming(lp.g.difficulty_level)[1],
                                     GetSpawnTiming(lp.g.difficulty_level)[2]),
               lthreshold \in Uniform(GetLifelineSpawnTiming(lp.g.difficulty_level)[1],
                                      GetLifelineSpawnTiming(lp.g.difficulty_level)[2]),
               coin \in BOOLEAN :
            LET now == wall_time + dt
                due == SpawnDue(now, lp.g.last_spawn_time, threshold)
                ldue == SpawnDue(now, lp.g.last_lifeline_spawn_time, lthreshold) /\ coin
            IN  \E created \in
                    (IF due
                     THEN UNION {CreateObstaclePattern(p) :
                                    p \in ObstaclePatterns(lp.g.difficulty_level)}
                     ELSE {<<>>}) :
                /\ Len(lp.g.obstacles) + Len(created) <= MaxObstacles
                /\ Len(lp.g.lifelines) + (IF ldue THEN 1 ELSE 0) <= MaxLifelines
                /\ \E g5 \in {IF due THEN SpawnObstacles(lp.g, now, created, next_id)
                              ELSE lp.g} :
                   \E base_y \in (IF ldue THEN CreateLifeline(g5) ELSE {0}) :
                      /\ game' = IF ldue
                                 THEN SpawnLifeline(g5, now, base_y, next_id + Len(created))
                                 ELSE g5
                      /\ next_id' = next_id + Len(created) + (IF ldue THEN 1 ELSE 0)
                      /\ paused_time' = IF due THEN 0 ELSE paused_time
                      /\ boosts' = IF game'.is_jumping THEN boosts ELSE 0
                      /\ despawned' = despawned
                                         + Len(game.obstacles) - Len(op.g.obstacles)
                      /\ ev' = [op |-> "update", effect |-> TRUE,
                                hit |-> op.hit, seen |-> op.seen,
                                reaped |-> Len(op.marks),
                                collected |-> lp.collected,
                                spawned |-> Len(created),
                                lifeline_spawned |-> ldue,
                                inv |-> op.inv,
                                run_elapsed |->
                                    IF due THEN now - lp.g.last_spawn_time - paused_time
                                    ELSE 0,
                                lives_before |-> game.lives,
                                score_before |-> game.score,
                                landed |-> game.is_jumping /\ ~game'.is_jumping]

\* One frame of run(), the frames counted
Update(dt) ==
    /\ ticks < MaxTicks
    /\ ticks' = ticks + 1
    /\ Frame(dt)

\* a K_SPACE event
KeySpace ==
    /\ HandleSpace(game).velocity <= MaxVelocity
    /\ game' = HandleSpace(game)
    /\ ev' = InputEv("space", game, game')
    /\ boosts' = IF game'.is_jumping /\ ~game.is_jumping THEN 0
                 ELSE IF game'.velocity # game.velocity THEN boosts + 1
                 ELSE boosts
    /\ inputs < MaxInputs /\ inputs' = inputs + 1
    /\ despawned' = despawned
    /\ UNCHANGED <<wall_time, ticks, next_id, paused_time>>

\* a K_p event
KeyP ==
    /\ game' = HandleP(game)
    /\ ev' = InputEv("p", game, game')
    /\ inputs < MaxInputs /\ inputs' = inputs + 1
    /\ UNCHANGED <<wall_time, ticks, next_id, paused_time, boosts, despawned>>

\* a K_r event; restart_game reads time.time()
KeyR ==
    /\ game' = HandleR(game, wall_time)
    /\ ev' = InputEv("r", game, game')
    /\ paused_time' = IF game.game_running THEN paused_time ELSE 0
    /\ boosts' = IF game.game_running THEN boosts ELSE 0
    /\ despawned' = IF game.game_running THEN despawned ELSE 0
    /\ inputs < MaxInputs /\ inputs' = inputs + 1
    /\ UNCHANGED <<wall_time, ticks, next_id>>

\* a K_F1 event
KeyF1 ==
    /\ game' = HandleF1(game)
    /\ ev' = InputEv("f1", game, game')
    /\ inputs < MaxInputs /\ inputs' = inputs + 1
    /\ UNCHANGED <<wall_time, ticks, next_id, paused_time, boosts, despawned>>

----------------------------------------------------------------------------
\* Starting states.  The first is the state __init__ leaves; the others are
\* states of a run in progress, each reached from it by play: a score reached
\* by that many despawns (level and cached speed as update_difficulty left
\* them), lives left after hits, entities that have travelled a whole number
\* of ticks from the spawn column at the current speed, and spawn timers that
\* have been running for a while.

\* the player n ticks into a jump without boost: n gravity steps from
\* velocity jump_force on the ground, each taking gravity off the velocity
\* and then adding the velocity to the height (the sums in closed form)
Airborne(n) ==
    [player_y |-> ground_y + n * jump_force - gravity * ((n * (n + 1)) \div 2),
     velocity |-> jump_force - n * gravity]

\* the player of a starting state: on the ground, or in a jump
SeedPlayer(name) ==
    CASE name = "takeoff" -> Airborne(1) @@ [is_jumping |-> TRUE, player_rotation |-> 10]
      [] name = "landing" -> Airborne(58) @@ [is_jumping |-> TRUE, player_rotation |-> 10]
      [] name \in {"jump_hit_lifeline", "jump_approach"} ->
            Airborne(1) @@ [is_jumping |-> TRUE, player_rotation |-> 10]
      [] OTHER -> [player_y |-> ground_y, velocity |-> 0,
                   is_jumping |-> FALSE, player_rotation |-> 0]

\* the last position of an entity before it comes within tol of the player
ApproachX(speed, tol) == spawn_x - speed * ((spawn_x - (player_x0 + tol)) \div speed)

\* the last position of an entity before it passes the despawn threshold
LeavingX(speed) == spawn_x - speed * ((spawn_x - despawn_x) \div speed)

\* the obstacles and lifelines on screen: lists of [x, base_y].
\*   approach: a ground obstacle about to reach the player
\*   pair: two ground obstacles spawned on consecutive ticks, the first about
\*         to reach the player
\*   pair_inside: the same pair three ticks later (the first has hit, which
\*         kept the second from moving on that tick)
\*   leaving: an obstacle about to pass the despawn threshold
\*   leaving_approach: one about to pass the threshold, a later one about to
\*         reach the player
\*   lifeline: a low lifeline about to reach the player
\*   takeoff, landing: nothing on screen; the player is one tick, and 58
\*         ticks, into a jump without boost
\*   lifeline_pair: a high lifeline about to pass the despawn threshold, a
\*         low one about to reach the player
\*   jump_approach: as approach, the player one tick into a jump
\*   jump_hit_lifeline: a ground obstacle about to reach the player and a
\*         lifeline spawned one tick after it, 1.5 above its base; the player
\*         is one tick into a jump
Scene(name, speed) ==
    LET near == ApproachX(speed, obstacle_tolerance)
        far == LeavingX(speed)
        ground == HeightY("ground")
    IN  CASE name \in {"empty", "takeoff", "landing"} ->
                [obstacles |-> <<>>, lifelines |-> <<>>]
          [] name \in {"approach", "jump_approach"} ->
                [obstacles |-> <<[x |-> near, base_y |-> ground]>>, lifelines |-> <<>>]
          [] name = "pair" ->
                [obstacles |-> <<[x |-> near, base_y |-> ground],
                                 [x |-> near + speed, base_y |-> ground]>>,
                 lifelines |-> <<>>]
          [] name = "pair_inside" ->
                [obstacles |-> <<[x |-> near - 3 * speed, base_y |-> ground],
                                 [x |-> near - speed, base_y |-> ground]>>,
                 lifelines |-> <<>>]
          [] name = "leaving" ->
                [obstacles |-> <<[x |-> far, base_y |-> ground]>>, lifelines |-> <<>>]
          [] name = "leaving_approach" ->
                [obstacles |-> <<[x |-> far, base_y |-> ground],
                                 [x |-> near, base_y |-> ground]>>,
                 lifelines |-> <<>>]
          [] name = "lifeline" ->
                [obstacles |-> <<>>,
                 lifelines |-> <<[x |-> ApproachX(speed, lifeline_tolerance),
                                  base_y |-> -50000]>>]
          [] name = "lifeline_pair" ->
                [obstacles |-> <<>>,
                 lifelines |-> <<[x |-> far, base_y |-> -30000],
                                 [x |-> ApproachX(speed, lifeline_tolerance),
                                  base_y |-> -50000]>>]
          [] name = "jump_hit_lifeline" ->
                [obstacles |-> <<[x |-> near, base_y |-> ground]>>,
                 lifelines |-> <<[x |-> near + speed, base_y |-> -40000]>>]

\* a starting state: score, lives, scene, the invulnerability timer left (0:
\* not invulnerable), the time since the last obstacle and lifeline spawn
Seed(score0, lives0, name, timer, since_spawn, since_lifeline) ==
    [score |-> score0, lives |-> lives0, scene |-> name, timer |-> timer,
     since_spawn |-> since_spawn, since_lifeline |-> since_lifeline]

Seeds ==
    { Seed(0, 5, "empty", 0, 0, 0),
      Seed(0, 5, "empty", 0, 17000, 0),
      Seed(0, 5, "empty", 0, 20000, 0),
      Seed(0, 5, "empty", 0, 0, 170000),
      Seed(0, 5, "approach", 0, 0, 0), Seed(0, 1, "approach", 0, 0, 0),
      Seed(0, 5, "pair", 0, 0, 0),
      Seed(0, 4, "pair_inside", 26766, 0, 0), Seed(0, 1, "pair_inside", 26766, 0, 0),
      Seed(0, 4, "pair_inside", 108, 0, 0), Seed(0, 1, "pair_inside", 108, 0, 0),
      Seed(0, 5, "leaving", 0, 0, 0), Seed(9, 5, "leaving", 0, 0, 0),
      Seed(139, 5, "leaving", 0, 0, 0), Seed(998, 5, "leaving", 0, 0, 0),
      Seed(9, 5, "leaving_approach", 0, 0, 0), Seed(9, 1, "leaving_approach", 0, 0, 0),
      Seed(0, 5, "lifeline", 0, 0, 0),
      Seed(0, 5, "takeoff", 0, 108, 108), Seed(0, 5, "landing", 0, 6264, 6264) }

SeedGame(seed) ==
    LET g == UpdateDifficulty([ResetGameState(0) EXCEPT
                                  !.score = seed.score, !.lives = seed.lives])
        sc == Scene(seed.scene, g.speed)
        n == Len(sc.obstacles)
        pl == SeedPlayer(seed.scene)
    IN  [g EXCEPT
           !.player_y = pl.player_y, !.velocity = pl.velocity,
           !.is_jumping = pl.is_jumping, !.player_rotation = pl.player_rotation,
           !.show_999_forever = (seed.score >= 999),
           !.invulnerable = (seed.timer > 0),
           !.invulnerable_timer = seed.timer,
           !.last_spawn_time = 0 - seed.since_spawn,
           !.last_lifeline_spawn_time = 0 - seed.since_lifeline,
           !.obstacles = NewObstacles(sc.obstacles, 1),
           !.obstacle_data = NewObstacleData(sc.obstacles, 1),
           !.lifelines = NewObstacles(sc.lifelines, n + 1),
           !.lifeline_data = NewObstacleData(sc.lifelines, n + 1)]

Init ==
    /\ \E seed \in Seeds :
          /\ game = SeedGame(seed)
          /\ next_id = Len(game.obstacles) + Len(game.lifelines) + 1
    /\ wall_time = 0
    /\ ticks = 0
    /\ inputs = 0
    /\ paused_time = 0
    /\ boosts = 0
    /\ despawned = game.score
    /\ ev = NoEv

Next ==
    \/ \E dt \in DtChoices : Update(dt)
    \/ KeySpace
    \/ KeyP
    \/ KeyR
    \/ KeyF1

Spec == Init /\ [][Next]_vars

----------------------------------------------------------------------------
\* The same game started from the states where lifelines and spawns meet the
\* rest of a tick: a lifeline about to be collected, with and without
\* invulnerability, one collected on the tick another is reaped, an obstacle
\* reaped on the tick a later one hits, a lifeline collected on the tick of a
\* fatal hit, a fatal hit
\* on a tick where an obstacle spawn is due, a lifeline timer elapsed beyond
\* the whole range of thresholds, and a game at level 15 with both spawn
\* timers just short of their floors of 0.4 s and 5.0 s.

EncounterSeeds ==
    { Seed(0, 5, "lifeline", 0, 0, 0),
      Seed(0, 4, "lifeline", 26766, 0, 0),
      Seed(9, 5, "leaving_approach", 0, 0, 0),
      Seed(0, 5, "lifeline_pair", 0, 0, 0),
      Seed(0, 1, "jump_hit_lifeline", 0, 0, 0),
      Seed(0, 1, "approach", 0, 20000, 0),
      Seed(0, 5, "empty", 0, 0, 180000),
      Seed(140, 5, "empty", 0, 6850, 0),
      Seed(140, 5, "empty", 0, 0, 89900) }

EncounterInit ==
    /\ \E seed \in EncounterSeeds :
          /\ game = SeedGame(seed)
          /\ next_id = Len(game.obstacles) + Len(game.lifelines) + 1
    /\ wall_time = 0
    /\ ticks = 0
    /\ inputs = 0
    /\ paused_time = 0
    /\ boosts = 0
    /\ despawned = game.score
    /\ ev = NoEv

EncounterSpec == EncounterInit /\ [][Next]_vars

----------------------------------------------------------------------------
\* The difficulty and placement functions, called at every level.  A starting
\* state is the game as update has it between its obstacle spawn and its
\* lifeline spawn: at level L, with nothing on screen or with a pattern of
\* that level just created at the spawn column.  The functions change nothing
\* of the game, so one call from each starting state is explored.

LevelScenes(level) ==
    {<<>>} \cup UNION {CreateObstaclePattern(p) : p \in ObstaclePatterns(level)}

LevelGame(level, created) ==
    [SeedGame(Seed(10 * (level - 1), start_lives, "empty", 0, 0, 0)) EXCEPT
        !.obstacles = NewObstacles(created, 1),
        !.obstacle_data = NewObstacleData(created, 1)]

CallInit ==
    /\ \E level \in 1..max_difficulty_level :
          \E created \in LevelScenes(level) :
             /\ game = LevelGame(level, created)
             /\ next_id = Len(created) + 1
    /\ wall_time = 0
    /\ ticks = 0
    /\ inputs = 0
    /\ paused_time = 0
    /\ boosts = 0
    /\ despawned = game.score
    /\ ev = NoEv

\* get_obstacle_pattern()
CallGetObstaclePattern ==
    /\ ev = NoEv
    /\ \E p \in ObstaclePatterns(game.difficulty_level) :
          ev' = [op |-> "get_obstacle_pattern", pattern |-> p]
    /\ UNCHANGED <<game, wall_time, ticks, inputs, next_id, paused_time, boosts, despawned>>

\* get_spawn_timing() and the threshold update draws from it
CallGetSpawnTiming ==
    /\ ev = NoEv
    /\ \E range \in {GetSpawnTiming(game.difficulty_level)} :
       \E threshold \in Uniform(range[1], range[2]) :
          ev' = [op |-> "get_spawn_timing", min_time |-> range[1],
                 max_time |-> range[2], threshold |-> threshold]
    /\ UNCHANGED <<game, wall_time, ticks, inputs, next_id, paused_time, boosts, despawned>>

\* get_lifeline_spawn_timing() and the threshold update draws from it
CallGetLifelineSpawnTiming ==
    /\ ev = NoEv
    /\ \E range \in {GetLifelineSpawnTiming(game.difficulty_level)} :
       \E threshold \in Uniform(range[1], range[2]) :
          ev' = [op |-> "get_lifeline_spawn_timing", min_time |-> range[1],
                 max_time |-> range[2], threshold |-> threshold]
    /\ UNCHANGED <<game, wall_time, ticks, inputs, next_id, paused_time, boosts, despawned>>

\* get_current_speed(), with the numerator of get_difficulty_multiplier()
CallGetCurrentSpeed ==
    /\ ev = NoEv
    /\ ev' = [op |-> "get_current_speed",
              speed |-> GetCurrentSpeed(game.difficulty_level),
              multiplier |-> DifficultyMultiplier(game.difficulty_level)]
    /\ UNCHANGED <<game, wall_time, ticks, inputs, next_id, paused_time, boosts, despawned>>

\* create_lifeline(), the draws of its attempts given
CallCreateLifeline ==
    /\ ev = NoEv
    /\ \E draws \in DrawSequences :
          ev' = [op |-> "create_lifeline", draws |-> draws,
                 base_y |-> CreateLifelineFrom(game, draws, 1)]
    /\ UNCHANGED <<game, wall_time, ticks, inputs, next_id, paused_time, boosts, despawned>>

CallNext ==
    \/ CallGetObstaclePattern
    \/ CallGetSpawnTiming
    \/ CallGetLifelineSpawnTiming
    \/ CallGetCurrentSpeed
    \/ CallCreateLifeline

CallSpec == CallInit /\ [][CallNext]_vars

----------------------------------------------------------------------------
\* update called directly with dt = 0, any number of times, with no input and
\* no time passing between the calls.

ZeroDtNext == Update(0)

ZeroDtSpec == Init /\ [][ZeroDtNext]_vars

----------------------------------------------------------------------------
\* A run at a steady 144 Hz, every frame lasting 1/144 s, with no input: at
\* each level, full lives, one ground obstacle about to reach a player who is
\* on the ground or one tick into a jump, and both spawn timers just started.

\* 1/FPS
SteadyDt == 125

SteadyInit ==
    /\ \E level \in 1..max_difficulty_level :
       \E scene \in {"approach", "jump_approach"} :
          game = SeedGame(Seed(10 * (level - 1), start_lives, scene, 0, 0, 0))
    /\ next_id = 2
    /\ wall_time = 0
    /\ ticks = 0
    /\ inputs = 0
    /\ paused_time = 0
    /\ boosts = 0
    /\ despawned = game.score
    /\ ev = NoEv

SteadyFrame ==
    /\ ticks < MaxFrames
    /\ ticks' = ticks + 1
    /\ Frame(SteadyDt)

SteadySpec == SteadyInit /\ [][SteadyFrame]_vars

----------------------------------------------------------------------------
\* Properties.

\* the lifecycle state of section 4.5
Lifecycle(g) ==
    IF ~g.game_running THEN "GameOver" ELSE IF g.game_paused THEN "Paused" ELSE "Running"

\* the ids of the entities of a list
Ids(list) == {list[i].id : i \in 1..Len(list)}

\* the obstacles of g within the collision tolerance of the player
Overlapping(g) ==
    {i \in 1..Len(g.obstacles) : Overlaps(g, g.obstacles[i], obstacle_tolerance)}

\* the step is a call of update that ran (the game was running and not paused)
Ticked == ev'.op = "update" /\ ev'.effect

\* 1 if the tick collected a lifeline, else 0
Collected == IF ev'.collected # 0 THEN 1 ELSE 0

\* C1: a hit that brings lives to 0 ends the run, the run ends in no other
\* way, and in GameOver every update and every jump, pause or debug-score
\* input leaves score, lives, level, player and both entity lists as they
\* are; only a restart leaves GameOver.
C1_GameOverFrozen ==
    [][ /\ (Ticked /\ ev'.hit # 0 /\ game.lives = 1) =>
              (~game'.game_running /\ game'.game_over_screen)
        /\ (game.game_running /\ ~game'.game_running) =>
              (Ticked /\ ev'.hit # 0 /\ game.lives <= 1)
        /\ (~game.game_running /\ ev'.op # "r") =>
              /\ ~game'.game_running
              /\ game'.score = game.score
              /\ game'.lives = game.lives
              /\ game'.difficulty_level = game.difficulty_level
              /\ game'.player_y = game.player_y
              /\ game'.velocity = game.velocity
              /\ game'.is_jumping = game.is_jumping
              /\ game'.player_rotation = game.player_rotation
              /\ game'.invulnerable = game.invulnerable
              /\ game'.obstacles = game.obstacles
              /\ game'.obstacle_data = game.obstacle_data
              /\ game'.lifelines = game.lifelines
              /\ game'.lifeline_data = game.lifeline_data
      ]_vars

\* update was called in GameOver with an obstacle on screen
C1_Witness ==
    ~game.game_running /\ ev.op = "update" /\ Len(game.obstacles) > 0

\* C2: the state is one of Running, Paused, GameOver (never paused and over
\* at once, and the game-over screen is up exactly in GameOver), every start
\* is Running, and the only changes are pause toggle Running <-> Paused,
\* fatal hit Running -> GameOver and restart GameOver -> Running; a pause
\* toggle in GameOver and a restart input in Running or Paused do nothing.
C2_Lifecycle ==
    /\ [](/\ ~(game.game_paused /\ ~game.game_running)
          /\ game.game_over_screen = ~game.game_running
          /\ (ev.op = "init" => Lifecycle(game) = "Running"))
    /\ [][ /\ Lifecycle(game') # Lifecycle(game) =>
                \/ /\ ev'.op = "p"
                   /\ <<Lifecycle(game), Lifecycle(game')>> \in
                         {<<"Running", "Paused">>, <<"Paused", "Running">>}
                \/ /\ Ticked /\ ev'.hit # 0
                   /\ Lifecycle(game) = "Running" /\ Lifecycle(game') = "GameOver"
                \/ /\ ev'.op = "r"
                   /\ Lifecycle(game) = "GameOver" /\ Lifecycle(game') = "Running"
           /\ (ev'.op = "p" /\ Lifecycle(game) = "GameOver") => game' = game
           /\ (ev'.op = "p" /\ Lifecycle(game) # "GameOver") =>
                 Lifecycle(game') # Lifecycle(game)
           /\ (ev'.op = "r" /\ Lifecycle(game) # "GameOver") => game' = game
         ]_vars

\* the pause key was pressed in GameOver
C2_Witness == Lifecycle(game) = "GameOver" /\ ev.op = "p"

\* C3: a restart from GameOver leaves score 0, lives 5, level 1, no obstacle,
\* no lifeline, no animation record, the player on the ground at rest, not
\* invulnerable, not paused, running, and the 999 flag cleared.
C3_RestartResets ==
    [][ (ev'.op = "r" /\ ~game.game_running) =>
          /\ game'.score = 0
          /\ game'.lives = 5
          /\ game'.difficulty_level = 1
          /\ game'.obstacles = <<>> /\ game'.obstacle_data = <<>>
          /\ game'.lifelines = <<>> /\ game'.lifeline_data = <<>>
          /\ game'.player_y = -60000 /\ game'.velocity = 0 /\ ~game'.is_jumping
          /\ ~game'.invulnerable
          /\ ~game'.game_paused
          /\ game'.game_running /\ ~game'.game_over_screen
          /\ ~game'.show_999_forever
      ]_vars

\* a restart has just reset a run that had reached 999
C3_Witness ==
    ev.op = "r" /\ ev.effect /\ ev.score_before >= 999 /\ game.score = 0

\* C4: while Paused, update and the jump and debug-score keys change nothing
\* of the game (player, timer, entities, score, lives, level, spawn times)
\* and create no entity.
C4_PausedFrozen ==
    [][ (Lifecycle(game) = "Paused" /\ ev'.op \in {"update", "space", "f1"}) =>
          (game' = game /\ next_id' = next_id)
      ]_vars

\* update was called while Paused with an obstacle about to reach the player
C4_Witness ==
    Lifecycle(game) = "Paused" /\ ev.op = "update" /\ Len(game.obstacles) > 0

\* C5: an obstacle spawn happens only when the unpaused time since the last
\* spawn exceeds the sampled threshold, which is at least the minimum of the
\* spawn range (time spent paused does not count).
C5_PausedTimeNotCounted ==
    (ev.op = "update" /\ ev.spawned > 0) =>
        ev.run_elapsed > GetSpawnTiming(game.difficulty_level)[1]

\* C6: difficulty_level is min(15, score // 10 + 1) in every state.
C6_LevelFromScore ==
    /\ game.difficulty_level \in 1..15
    /\ game.difficulty_level =
          (IF game.score \div 10 + 1 > 15 THEN 15 ELSE game.score \div 10 + 1)

\* the tenth despawn has just raised the level to 2
C6_Witness ==
    ev.op = "update" /\ ev.reaped > 0 /\ game.score = 10 /\ game.difficulty_level = 2

\* C7: no tick and no input but restart lowers the score.
C7_ScoreNeverDecreases ==
    [][ ev'.op # "r" => game'.score >= game.score ]_vars

\* C8: on a tick that finds an obstacle within 1.2 of the player on both
\* axes, with invulnerability off the hit costs one life (a lifeline
\* collected later in the tick adds its own); with invulnerability on no life
\* is lost, the game stays Running, the timer is not set back, and every
\* obstacle moves left by the speed or is reaped.  Invulnerability is as the
\* collision test finds it, after the timer step of the tick.
C8_HitUnlessInvulnerable ==
    [][ (Ticked /\ ev'.seen > 0) =>
          IF ~ev'.inv
          THEN /\ ev'.hit # 0
               /\ game'.lives = game.lives - 1 + Collected
          ELSE /\ ev'.hit = 0
               /\ game'.lives = game.lives + Collected
               /\ Lifecycle(game') = "Running"
               /\ game'.invulnerable
               /\ game'.invulnerable_timer <= game.invulnerable_timer
               /\ \A i \in 1..Len(game.obstacles) :
                     \/ game.obstacles[i].x - game.speed < despawn_x
                     \/ game.obstacles[i].x - game'.speed < despawn_x
                     \/ \E j \in 1..Len(game'.obstacles) :
                           /\ game'.obstacles[j].id = game.obstacles[i].id
                           /\ game.obstacles[i].x - game'.obstacles[j].x
                                 \in {game.speed, game'.speed}
      ]_vars

\* a tick found an obstacle on the invulnerable player and took no life
C8_Witness ==
    /\ ev.op = "update" /\ ev.seen > 0 /\ ev.inv /\ ev.hit = 0
    /\ game.lives = ev.lives_before
    /\ Overlapping(game) # {}

\* C9: a tick takes at most one life; when two or more obstacles overlap the
\* vulnerable player, the first one in the list hits and exactly one life is
\* lost (a lifeline collected later in the tick adds its own).
C9_OneLifePerTick ==
    [][ Ticked =>
          /\ game'.lives >= game.lives - 1
          /\ (Cardinality(Overlapping(game')) >= 2 /\ ~ev'.inv) =>
                /\ ev'.hit # 0
                /\ \A i \in 1..(ev'.hit - 1) :
                      ~Overlaps(game', game'.obstacles[i], obstacle_tolerance)
                /\ game'.lives = game.lives - 1 + Collected
      ]_vars

\* a tick took one life while two obstacles overlapped the player
C9_Witness ==
    /\ ev.op = "update" /\ ev.hit # 0 /\ ~ev.inv
    /\ Cardinality(Overlapping(game)) >= 2
    /\ game.lives = ev.lives_before - 1

\* C10 as stated: the obstacle that hits the player is removed from the list.
C10_HitRemovesObstacle ==
    [][ (Ticked /\ ev'.hit # 0) =>
          game.obstacles[ev'.hit].id \notin Ids(game'.obstacles)
      ]_vars

\* C10 as amended: a tick removes exactly the obstacles it finds past the
\* despawn threshold, each with its animation record and each for one score
\* point; the obstacle that hits the player stays in the list with its record.
C10_OnlyDespawnRemoves ==
    [][ Ticked =>
          LET gone == {i \in 1..Len(game.obstacles) :
                          game.obstacles[i].id \notin Ids(game'.obstacles)}
          IN  /\ \A i \in gone :
                    \/ game.obstacles[i].x - game.speed < despawn_x
                    \/ game.obstacles[i].x - game'.speed < despawn_x
              /\ game'.score = game.score + Cardinality(gone)
              /\ ev'.reaped = Cardinality(gone)
              /\ Ids(game'.obstacle_data) = Ids(game'.obstacles)
              /\ Len(game'.obstacle_data) = Len(game'.obstacles)
              /\ ev'.hit # 0 =>
                    /\ game.obstacles[ev'.hit].id \in Ids(game'.obstacles)
                    /\ game.obstacles[ev'.hit].id \in Ids(game'.obstacle_data)
      ]_vars

\* a tick reaped one obstacle for a point and another obstacle hit and stayed
C10_Witness ==
    /\ ev.op = "update" /\ ev.hit # 0 /\ ev.reaped = 1
    /\ game.score = ev.score_before + 1
    /\ Overlapping(game) # {}

\* the duration of the frame of the step
FrameDt == wall_time' - wall_time

\* C11: a hit that leaves lives makes the player invulnerable with timer 1.5;
\* on a running tick that starts invulnerable the timer goes down by dt and
\* the flag is cleared exactly when the timer reaches 0 or below; a tick on
\* which the flag is still set takes no life; in every state invulnerable
\* implies invulnerable_timer > 0.
C11_InvulnerabilityWindow ==
    /\ [](game.invulnerable => game.invulnerable_timer > 0)
    /\ [][ Ticked =>
             LET t == game.invulnerable_timer - FrameDt
             IN  /\ (ev'.hit # 0 /\ game'.game_running) =>
                       /\ game'.invulnerable
                       /\ game'.invulnerable_timer = invulnerable_duration
                 /\ game.invulnerable => ev'.inv = (t > 0)
                 /\ (game.invulnerable /\ ev'.hit = 0) =>
                       /\ game'.invulnerable_timer = t
                       /\ game'.invulnerable = (t > 0)
                 /\ ev'.inv => (ev'.hit = 0 /\ game'.lives >= game.lives)
         ]_vars

\* the timer ran out on a tick on which an obstacle then hit: one life lost,
\* invulnerable again for the whole duration
C11_Witness ==
    /\ ev.op = "update" /\ ~ev.inv /\ ev.hit # 0
    /\ ev.lives_before = 4 /\ game.lives = 3
    /\ game.invulnerable /\ game.invulnerable_timer = invulnerable_duration

\* C12: the 999 flag is set exactly when score >= 999, in every state; once
\* set it stays set under every tick, pause and input but restart, and only
\* a restart clears it.
C12_StickyFlag ==
    /\ [](game.show_999_forever = (game.score >= 999))
    /\ [][ /\ (game.show_999_forever /\ ev'.op # "r") => game'.show_999_forever
           /\ (game.show_999_forever /\ ~game'.show_999_forever) =>
                 (ev'.op = "r" /\ ~game.game_running)
           /\ (game.score < 999 /\ game'.score >= 999) => game'.show_999_forever
         ]_vars

\* the despawn that brought the score to 999 has set the flag
C12_Witness ==
    /\ ev.op = "update" /\ ev.reaped > 0 /\ ev.score_before = 998
    /\ game.score = 999 /\ game.show_999_forever

\* the six patterns and the level from which the gating table enables each
AllPatterns ==
    {"single_ground", "single_air", "double_stack", "gap_vertical", "triple",
     "gap_horizontal"}

PatternThreshold(p) ==
    CASE p = "single_ground" -> 1
      [] p = "single_air" -> 1
      [] p = "double_stack" -> 3
      [] p = "gap_vertical" -> 5
      [] p = "triple" -> 7
      [] p = "gap_horizontal" -> 9

\* C13: at level L the pattern chosen has threshold <= L, and every pattern
\* with threshold <= L can be chosen.
C13_EveryEnabledPattern ==
    /\ ev.op = "get_obstacle_pattern" =>
          PatternThreshold(ev.pattern) <= game.difficulty_level
    /\ ObstaclePatterns(game.difficulty_level) =
          {p \in AllPatterns : PatternThreshold(p) <= game.difficulty_level}

\* C14: at every level both spawn ranges have min <= max, the obstacle range
\* min >= 0.4 s and max >= 0.8 s, the lifeline range min >= 5.0 s and
\* max >= 8.0 s, and the threshold drawn lies between min and max.
C14_SpawnRanges ==
    /\ ev.op \in {"get_spawn_timing", "get_lifeline_spawn_timing"} =>
          /\ ev.min_time <= ev.max_time
          /\ ev.min_time <= ev.threshold /\ ev.threshold <= ev.max_time
    /\ ev.op = "get_spawn_timing" => (ev.min_time >= 7200 /\ ev.max_time >= 14400)
    /\ ev.op = "get_lifeline_spawn_timing" =>
          (ev.min_time >= 90000 /\ ev.max_time >= 144000)

\* the obstacle range at level 15, where both floors apply
C14_Witness ==
    /\ ev.op = "get_spawn_timing" /\ game.difficulty_level = 15
    /\ ev.min_time = 7200 /\ ev.max_time = 14400 /\ ev.threshold = ev.max_time

\* the obstacles in the spawn window 23 < x < 27
InWindow == {i \in 1..Len(game.obstacles) :
                game.obstacles[i].x > 230000 /\ game.obstacles[i].x < 270000}

\* altitude y is at least 1.5 from the base altitude of every obstacle in the window
FarFromWindow(y) ==
    \A i \in InWindow : Abs(y - game.obstacle_data[i].base_y) >= 15000

\* C15: create_lifeline returns the first of its at most 10 draws that is in
\* [-5.0, -3.0] and at least 1.5 from the base altitude of every obstacle with
\* 23 < x < 27, and returns -2.8 only when none of the 10 draws is.
C15_LifelinePlacement ==
    ev.op = "create_lifeline" =>
        LET safe == {i \in 1..10 : FarFromWindow(ev.draws[i])}
        IN  /\ ev.base_y \in CreateLifeline(game)
            /\ IF safe = {}
               THEN ev.base_y = -28000
               ELSE /\ \E i \in safe :
                         /\ ev.base_y = ev.draws[i]
                         /\ \A j \in safe : i <= j
                    /\ ev.base_y >= -50000 /\ ev.base_y <= -30000
                    /\ FarFromWindow(ev.base_y)

\* ten unsafe draws next to a fresh obstacle: the default altitude
C15_Witness ==
    /\ ev.op = "create_lifeline" /\ InWindow # {}
    /\ \A i \in 1..10 : ~FarFromWindow(ev.draws[i])
    /\ ev.base_y = -28000

\* C16: at every level L of 1..15 the speed is base_speed * (1 + (L/15) * 4),
\* not below the speed of any lower level, 5 * base_speed at level 15, and
\* the multiplier L/15 is in (0, 1].
C16_SpeedCurve ==
    ev.op = "get_current_speed" =>
        /\ ev.speed * 15 = base_speed * (15 + game.difficulty_level * 4)
        /\ \A lower \in 1..game.difficulty_level : GetCurrentSpeed(lower) <= ev.speed
        /\ game.difficulty_level = 15 => ev.speed = 5 * base_speed
        /\ 0 < ev.multiplier /\ ev.multiplier <= 15

\* the speed at level 15
C16_Witness ==
    ev.op = "get_current_speed" /\ game.difficulty_level = 15 /\ ev.speed = 6000

\* C17: with no debug input, the despawn that takes the score from 9 to 10
\* takes the level from 1 to 2 and the cached speed from base_speed to
\* base_speed * (1 + (2/15) * 4); the cached speed changes on no step that
\* leaves the level as it is.
C17_TenthDespawn ==
    /\ []((~game.show_999_forever /\ game.score < 10) =>
             (game.difficulty_level = 1 /\ game.speed = base_speed))
    /\ [][ /\ (Ticked /\ game.score = 9 /\ ev'.reaped = 1) =>
                 /\ game'.score = 10
                 /\ game.difficulty_level = 1 /\ game'.difficulty_level = 2
                 /\ game'.speed * 15 = base_speed * (15 + 2 * 4)
           /\ game'.speed # game.speed =>
                 game'.difficulty_level # game.difficulty_level
         ]_vars

\* the tenth despawn of a run has just set level 2 and its speed
C17_Witness ==
    /\ ev.op = "update" /\ ev.score_before = 9 /\ ev.reaped = 1
    /\ game.score = 10 /\ game.difficulty_level = 2 /\ game.speed = 1840

\* C18: a call of update with dt = 0 in the Running state leaves score,
\* level and the numbers of obstacles and lifelines as they are.
C18_ZeroDtChangesNothing ==
    [][ (Ticked /\ FrameDt = 0) =>
          /\ game'.score = game.score
          /\ game'.difficulty_level = game.difficulty_level
          /\ Len(game'.obstacles) = Len(game.obstacles)
          /\ Len(game'.lifelines) = Len(game.lifelines)
      ]_vars

\* C19: a jump press on the ground (Running) sets velocity to jump_force and
\* the airborne flag; a press in the air never sets velocity to jump_force:
\* it leaves it or adds the boost impulse, and adds it only while velocity > 0
\* and player_y < max_jump_height, and at most once between a takeoff and the
\* next landing.
C19_JumpAndBoost ==
    /\ [](boosts <= 1)
    /\ [][ (ev'.op = "space" /\ Lifecycle(game) = "Running") =>
             IF ~game.is_jumping
             THEN game'.velocity = jump_force /\ game'.is_jumping
             ELSE /\ game'.velocity \in {game.velocity, game.velocity + boost_impulse}
                  /\ game'.velocity # game.velocity =>
                        (game.velocity > 0 /\ game.player_y < max_jump_height)
         ]_vars

\* C20: after every running update player_y >= -6.0; when velocity - gravity
\* takes the height to -6.0 or below, the height is exactly -6.0, velocity 0
\* and the airborne flag clear, otherwise height and velocity are the
\* integrated ones; the rotation is 10 when the airborne flag is set, else 0.
C20_GroundClamp ==
    [][ Ticked =>
          LET v == game.velocity - gravity
              y == game.player_y + v
          IN  /\ game'.player_y >= -60000
              /\ IF y <= -60000
                 THEN /\ game'.player_y = -60000
                      /\ game'.velocity = 0
                      /\ ~game'.is_jumping
                 ELSE /\ game'.player_y = y
                      /\ game'.velocity = v
                      /\ game'.is_jumping = game.is_jumping
              /\ game'.player_rotation = (IF game'.is_jumping THEN 10 ELSE 0)
      ]_vars

\* the player has just landed from a jump
C20_Witness ==
    /\ ev.op = "update" /\ ev.landed
    /\ game.player_y = -60000 /\ game.velocity = 0
    /\ ~game.is_jumping /\ game.player_rotation = 0

\* the lifelines of g within the collection tolerance of the player
OverlappingLifelines(g) ==
    {i \in 1..Len(g.lifelines) : Overlaps(g, g.lifelines[i], lifeline_tolerance)}

\* the lifelines of the state before the step that are gone after it
GoneLifelines ==
    {i \in 1..Len(game.lifelines) : game.lifelines[i].id \notin Ids(game'.lifelines)}

\* C21: on a running tick a lifeline within 1.3 of the player on both axes is
\* collected, whether or not the player is invulnerable: lives go up by
\* exactly 1 and the lifeline and its record leave the lists; a tick collects
\* at most one lifeline; a lifeline past the despawn threshold is removed
\* without a change of score or lives.
C21_LifelineCollection ==
    [][ Ticked =>
          LET c == ev'.collected
              hit == IF ev'.hit # 0 THEN 1 ELSE 0
          IN  /\ c # 0 =>
                    /\ c \in GoneLifelines
                    /\ game.lifelines[c].id \notin Ids(game'.lifeline_data)
                    /\ Abs(game'.player_x - (game.lifelines[c].x - game'.speed))
                          < lifeline_tolerance
              /\ c = 0 => OverlappingLifelines(game') = {}
              /\ game'.lives = game.lives - hit + Collected
              /\ game'.score = game.score + ev'.reaped
              /\ \A i \in GoneLifelines \ {c} :
                    game.lifelines[i].x - game'.speed < despawn_x
      ]_vars

\* a tick that started and ended invulnerable collected a lifeline for a life
C21_Witness ==
    /\ ev.op = "update" /\ ev.collected # 0 /\ ev.inv /\ ev.hit = 0
    /\ game.invulnerable
    /\ game.lives = ev.lives_before + 1
    /\ game.lifelines = <<>> /\ game.lifeline_data = <<>>

\* record i of data is the record created with entity i of list
Paired(list, data) ==
    /\ Len(list) = Len(data)
    /\ \A i \in 1..Len(list) : list[i].id = data[i].id

\* C22: obstacles and obstacle_data have the same length and record i is the
\* record of obstacle i; the same holds of lifelines and lifeline_data; so
\* every spawn and every removal changes an entity list and its record list
\* together.
C22_ParallelLists ==
    /\ Paired(game.obstacles, game.obstacle_data)
    /\ Paired(game.lifelines, game.lifeline_data)

\* a tick reaped the first obstacle and the second, with its record, moved
\* down to index 1
C22_Witness ==
    /\ ev.op = "update" /\ ev.reaped = 1
    /\ Len(game.obstacles) >= 1
    /\ game.obstacles[1].id = 2 /\ game.obstacle_data[1].id = 2

\* the ids of a list, in order
IdSeq(list) == [i \in 1..Len(list) |-> list[i].id]

\* the ids of a list in order, those at the indices of gone left out
RECURSIVE IdsWithout(_, _, _)
IdsWithout(list, gone, i) ==
    IF i > Len(list) THEN <<>>
    ELSE (IF i \in gone THEN <<>> ELSE <<list[i].id>>) \o IdsWithout(list, gone, i + 1)

\* the obstacles of the state before the step that are gone after it
GoneObstacles ==
    {i \in 1..Len(game.obstacles) : game.obstacles[i].id \notin Ids(game'.obstacles)}

\* C23: a tick removes exactly the entities its pass found past x < -25 and
\* the one lifeline it collected; every other entity keeps its place in the
\* order of its list, also on a tick that collects a lifeline and reaps
\* others and on a tick where a hit stops the scan after earlier marks.
C23_ExactRemoval ==
    [][ Ticked =>
          LET c == ev'.collected
              scanned == IF ev'.hit # 0 THEN 1..ev'.hit ELSE 1..Len(game.obstacles)
              lscanned == IF c # 0 THEN 1..c ELSE 1..Len(game.lifelines)
              kept == IdsWithout(game.obstacles, GoneObstacles, 1)
              lkept == IdsWithout(game.lifelines, GoneLifelines, 1)
          IN  /\ \A i \in GoneObstacles :
                    /\ i \in scanned
                    /\ \/ game.obstacles[i].x - game.speed < despawn_x
                       \/ game.obstacles[i].x - game'.speed < despawn_x
              /\ \A i \in scanned :
                    game.obstacles[i].x - game.speed < despawn_x => i \in GoneObstacles
              /\ \A i \in GoneLifelines :
                    /\ i \in lscanned
                    /\ i = c \/ game.lifelines[i].x - game'.speed < despawn_x
              /\ \A i \in lscanned :
                    (i = c \/ game.lifelines[i].x - game'.speed < despawn_x)
                        => i \in GoneLifelines
              /\ SubSeq(IdSeq(game'.obstacles), 1, Len(kept)) = kept
              /\ SubSeq(IdSeq(game'.obstacle_data), 1, Len(kept)) = kept
              /\ Len(game'.obstacles) = Len(kept) + ev'.spawned
              /\ SubSeq(IdSeq(game'.lifelines), 1, Len(lkept)) = lkept
              /\ SubSeq(IdSeq(game'.lifeline_data), 1, Len(lkept)) = lkept
              /\ Len(game'.lifelines) = Len(lkept) + (IF ev'.lifeline_spawned THEN 1 ELSE 0)
      ]_vars

\* a tick reaped the first lifeline and collected the second
C23_Witness ==
    /\ ev.op = "update" /\ ev.collected = 2
    /\ game.lives = ev.lives_before + 1
    /\ Len(game.lifelines) = (IF ev.lifeline_spawned THEN 1 ELSE 0)

\* entity e of the state before the step, if still in list after it, is there
\* with x lower by the cached speed (as it was before or after the step)
Advanced(e, list) ==
    \A j \in 1..Len(list) :
        list[j].id = e.id => list[j].x \in {e.x - game.speed, e.x - game'.speed}

\* C24: on every running tick every obstacle and every lifeline that stays on
\* screen has its x lowered by exactly the cached speed, also on a tick with
\* a hit or a collection.
C24_AllAdvance ==
    [][ Ticked =>
          /\ \A i \in 1..Len(game.obstacles) :
                Advanced(game.obstacles[i], game'.obstacles)
          /\ \A i \in 1..Len(game.lifelines) :
                Advanced(game.lifelines[i], game'.lifelines)
      ]_vars

\* C25: while no debug score has been entered since the last reset, score is
\* the number of obstacles removed since that reset; a tick adds to score
\* exactly the number of obstacles it removes, removes every obstacle it
\* finds past x < -25, so that none is there to be scored again, and
\* re-evaluates the level from the new score; no other step but the debug
\* score and a restart changes score.
C25_ScoreCountsDespawns ==
    /\ [](~game.show_999_forever => game.score = despawned)
    /\ [](\A i \in 1..Len(game.obstacles) : game.obstacles[i].x >= despawn_x)
    /\ [][ (Ticked =>
              /\ game'.score - game.score = despawned' - despawned
              /\ despawned' - despawned = Cardinality(GoneObstacles)
              /\ (Ids(game'.obstacles) \ Ids(game.obstacles))
                     \subseteq next_id..(next_id' - 1)
              /\ (GoneObstacles # {}) =>
                     (game'.difficulty_level = NewLevel(game'.score)))
           /\ ((ev'.op \notin {"f1", "r"} /\ ~Ticked) => game'.score = game.score)
           /\ (ev'.op = "r" => (game'.score = game.score \/
                                  (game'.score = 0 /\ despawned' = 0)))
       ]_vars

\* the 140th obstacle of a run without debug score was reaped: level 15
C25_Witness ==
    /\ ev.op = "update" /\ ev.reaped = 1 /\ ev.score_before = 139
    /\ ~game.show_999_forever
    /\ game.score = 140 /\ despawned = 140
    /\ game.difficulty_level = 15

\* C26: an obstacle spawn comes more than 0.4 s of clock time after the
\* obstacle spawn before it, a lifeline spawn more than 5.0 s after the
\* lifeline spawn before it; an obstacle spawn appends one pattern of 1 to 3
\* obstacles and sets the obstacle timer to the current time, and no other
\* step but a restart moves a spawn timer.
C26_SpawnSpacing ==
    /\ \A p \in AllPatterns : \A created \in CreateObstaclePattern(p) :
          Len(created) \in 1..3
    /\ [][ (Ticked =>
              /\ (ev'.spawned > 0) =>
                    /\ wall_time' - game.last_spawn_time > 7200
                    /\ ev'.spawned \in 1..3
                    /\ Len(game'.obstacles) =
                          Len(game.obstacles) - Cardinality(GoneObstacles) + ev'.spawned
                    /\ game'.last_spawn_time = wall_time'
              /\ (ev'.spawned = 0) =>
                    /\ game'.last_spawn_time = game.last_spawn_time
                    /\ Ids(game'.obstacles) \subseteq Ids(game.obstacles)
              /\ ev'.lifeline_spawned =>
                    /\ wall_time' - game.last_lifeline_spawn_time > 90000
                    /\ game'.last_lifeline_spawn_time = wall_time')
           /\ ((~Ticked /\ ev'.op # "r") =>
                 /\ game'.last_spawn_time = game.last_spawn_time
                 /\ game'.last_lifeline_spawn_time = game.last_lifeline_spawn_time)
       ]_vars

\* at level 15 a pattern of three obstacles was spawned just over 0.4 s after
\* the spawn before it
C26_Witness ==
    /\ ev.op = "update" /\ ev.spawned = 3
    /\ game.difficulty_level = 15
    /\ ev.run_elapsed > 7200 /\ ev.run_elapsed < 7400
    /\ game.last_spawn_time = wall_time

\* C27: lives is never negative, is at least 1 in every Running or Paused
\* state and is 0 in every GameOver state; on the tick of the fatal hit
\* nothing after the hit changes lives or adds an entity.
C27_LivesByLifecycle ==
    /\ [](/\ game.lives >= 0
          /\ Lifecycle(game) \in {"Running", "Paused"} => game.lives >= 1
          /\ Lifecycle(game) = "GameOver" => game.lives = 0)
    /\ [][ (Ticked /\ ev'.hit # 0 /\ game.lives = 1) =>
              /\ game'.lives = 0
              /\ Ids(game'.obstacles) \subseteq Ids(game.obstacles)
              /\ Ids(game'.lifelines) \subseteq Ids(game.lifelines)
      ]_vars

\* C28: in every reachable state the cached speed is get_current_speed() of
\* the current level, also right after reset and restart at level 1.
C28_CachedSpeedCurrent ==
    game.speed = GetCurrentSpeed(game.difficulty_level)

\* the lifelines the step appended
NewLifelines == Ids(game'.lifelines) \ Ids(game.lifelines)

\* C29: a tick on which the lifeline timer has elapsed but the coin flip
\* fails adds no lifeline and leaves last_lifeline_spawn_time as it was; a
\* tick changes that time, to the current time, exactly when it appends a
\* lifeline; a lifeline spawn never touches the obstacle timer.
C29_LifelineTimer ==
    [][ Ticked =>
          /\ (NewLifelines = {}) =>
                game'.last_lifeline_spawn_time = game.last_lifeline_spawn_time
          /\ (NewLifelines # {}) =>
                /\ Cardinality(NewLifelines) = 1
                /\ ev'.lifeline_spawned
                /\ game'.last_lifeline_spawn_time = wall_time'
          /\ (ev'.spawned = 0) => game'.last_spawn_time = game.last_spawn_time
          /\ (ev'.spawned > 0) => game'.last_spawn_time = wall_time'
      ]_vars

\* the lifeline timer had elapsed beyond every threshold of the level, the
\* coin flip failed: no lifeline, the timer still running from where it was
C29_Witness ==
    /\ ev.op = "update" /\ ev.effect /\ ~ev.lifeline_spawned
    /\ game.lifelines = <<>>
    /\ wall_time - game.last_lifeline_spawn_time
          > GetLifelineSpawnTiming(game.difficulty_level)[2]
    /\ game.last_lifeline_spawn_time = 0 - 180000

\* the obstacle has not yet left the collision window of the player
NotYetPast(o) == o.x > game.player_x - obstacle_tolerance

\* C30: with every frame lasting 1/144 s an obstacle costs at most one life:
\* from its hit until it has left the 1.2 window the player is invulnerable,
\* at every level, and an obstacle never moves back towards the window.
C30_OneLifePerObstacle ==
    /\ [](game.lives >= start_lives - 1)
    /\ [](\A i \in 1..Len(game.obstacles) :
            (game.lives < start_lives /\ NotYetPast(game.obstacles[i])) =>
                (game.invulnerable /\ game.invulnerable_timer > 0))
    /\ [][ \A i \in 1..Len(game.obstacles) : \A j \in 1..Len(game'.obstacles) :
              game'.obstacles[j].id = game.obstacles[i].id =>
                  game'.obstacles[j].x <= game.obstacles[i].x
      ]_vars

\* at the lowest speed the obstacle that hit has left the window with more
\* than 1.3 s of invulnerability to go
C30_Witness ==
    /\ game.difficulty_level = 1 /\ game.lives = start_lives - 1
    /\ Len(game.obstacles) = 1 /\ ~NotYetPast(game.obstacles[1])
    /\ game.invulnerable /\ game.invulnerable_timer > 24000

====
